---- MODULE Spec2Model ----
(***************************************************************************)
(* The process lifecycle of lighthouse/src/main.rs: main() parses the      *)
(* command line, resolves the network configuration and the eth spec,      *)
(* dispatches to boot_node or to run(); run() builds the environment,      *)
(* selects the subcommand, launches it, blocks until a shutdown reason     *)
(* arrives, fires the exit signal, drains the runtime and maps the reason  *)
(* to the process exit status.                                             *)
(*                                                                         *)
(* The control thread is one process (pc); the task spawned on the tokio   *)
(* runtime is a second one (task); the operator pressing ctrl-c a third.   *)
(***************************************************************************)
EXTENDS Integers, Sequences, FiniteSets, TLC

VARIABLES
    matches,          \* clap::ArgMatches: the parsed command line (fixed)
    build,            \* cargo features and pointer width of this build (fixed)
    pc,               \* position of the control thread in main()/run()
    eth_spec_id,      \* testnet_config.eth_spec_id()
    environment,      \* TRUE once EnvironmentBuilder::build() returned Ok
    network_name,     \* the name printed by "Configured for network"
    started,          \* sequence of subcommands whose entry point was called
    executed,         \* sequence of service entry points that have run
    task,             \* state of the future spawned on environment.runtime()
    entry_error,      \* error returned by a step of the service entry point
    dumped,           \* sequence of events "dump", "launch" (dump-config order)
    sent,             \* reasons passed to shutdown_sender().try_send, in order
    arrivals,         \* every reason offered to the channel, interrupt included
    chan,             \* the reason the ShutdownChannel holds
    interrupts,       \* number of ctrl-c delivered
    shutdown_reason,  \* the value block_until_shutdown_requested returned
    exit_signal,      \* TRUE once environment.fire_signal() ran
    idle,             \* TRUE once environment.shutdown_on_idle() returned
    log,              \* slog records <<level, message, value>>
    stderr,           \* lines written with eprintln!
    exit_status       \* argument of std::process::exit, NoStatus before

vars == <<matches, build, pc, eth_spec_id, environment, network_name, started,
          executed, task, entry_error, dumped, sent, arrivals, chan,
          interrupts, shutdown_reason, exit_signal, idle, log, stderr,
          exit_status>>

(***************************************************************************)
(* Bounds and the small sets the inputs are drawn from.                    *)
(***************************************************************************)
MaxInterrupts == 2

NoneV == "None"
NoStatus == 0 - 1

Subcommands ==
    {"beacon_node", "boot_node", "validator_client", "account_manager",
     "remote_signer"}

\* The four custom override file flags of clap_utils.
TESTNET_DEPOSIT_CONTRACT_DEPLOY_BLOCK == "testnet-deposit-contract-deploy-block"
TESTNET_BOOT_ENR == "testnet-boot-enr"
TESTNET_GENESIS_STATE == "testnet-genesis-state"
TESTNET_YAML_CONFIG == "testnet-yaml-config"

OverrideFlags ==
    {TESTNET_DEPOSIT_CONTRACT_DEPLOY_BLOCK, TESTNET_BOOT_ENR,
     TESTNET_GENESIS_STATE, TESTNET_YAML_CONFIG}

NetworkValues == {"pyrmont"}
TestnetDirValues == {"/testnet"}
DEFAULT_HARDCODED_NETWORK == "mainnet"

EthSpecIds == {"mainnet", "minimal", "v0.12.3"}
Features == {"spec-minimal", "spec-v12"}
PointerWidths == {32, 64}

\* Messages of the failures of the collaborators called from main.rs.
NetworkConfigErrors == {"Unable to load the network configuration"}
EthSpecIdErrors == {"Unknown CONFIG_NAME"}
EnvironmentErrors == {"Unable to create the log file"}
ConfigErrors == {"Invalid configuration"}
DumpErrors == {"Failed to create dumped config"}
AccountManagerErrors == {"Unable to open the wallet"}
EntryErrors == {"unable to connect to signer", "database locked"}

\* The results a call that fails with one of the messages of errs can give.
Results(errs) == {[ok |-> TRUE, e |-> <<>>]} \cup {[ok |-> FALSE, e |-> <<m>>] : m \in errs}

\* Result<(), String>: the error is the line eprintln! will write.
OkResult == [ok |-> TRUE, e |-> <<>>]
Err(e) == [ok |-> FALSE, e |-> e]

NoReason == [kind |-> NoneV, msg |-> ""]
Success(msg) == [kind |-> "Success", msg |-> msg]
Failure(msg) == [kind |-> "Failure", msg |-> msg]

\* The reason the interrupt stands for.
InterruptReason == Success("interrupt")

Range(s) == {s[i] : i \in 1..Len(s)}

(***************************************************************************)
(* clap: the conflicts_with / requires declarations of the network flags.  *)
(***************************************************************************)
\* Mutant: testnet-dir no longer declares its conflict with network.
ConflictsWithMissing(arg) ==
    IF arg \in OverrideFlags THEN {"network", "testnet-dir"} ELSE {}

\* The flags an argument declares it conflicts with.
ConflictsWith(arg) ==
    IF arg \in OverrideFlags THEN {"network", "testnet-dir"}
    ELSE IF arg = "testnet-dir" THEN {"network"}
    ELSE {}

\* The flag an argument requires.
Requires(arg) ==
    IF arg = TESTNET_DEPOSIT_CONTRACT_DEPLOY_BLOCK THEN {TESTNET_YAML_CONFIG}
    ELSE IF arg \in OverrideFlags THEN {TESTNET_DEPOSIT_CONTRACT_DEPLOY_BLOCK}
    ELSE {}

\* The network flags present on a command line.
PresentArgs(m) ==
    m.overrides
        \cup (IF m.network # NoneV THEN {"network"} ELSE {})
        \cup (IF m.testnet_dir # NoneV THEN {"testnet-dir"} ELSE {})

\* get_matches() rejects the command line (usage error, exit status 1).
ClapRejects(m) ==
    \/ \E a \in PresentArgs(m) : ConflictsWith(a) \cap PresentArgs(m) # {}
    \/ \E a \in PresentArgs(m) : ~(Requires(a) \subseteq PresentArgs(m))

\* The number of configuration sources a command line supplies.
SourcesSupplied(m) ==
    (IF m.network # NoneV THEN 1 ELSE 0)
        + (IF m.testnet_dir # NoneV THEN 1 ELSE 0)
        + (IF m.overrides # {} THEN 1 ELSE 0)

(***************************************************************************)
(* Pure pieces of main() and run().                                        *)
(***************************************************************************)
\* Mutant: the Minimal arm gated by the feature of the legacy spec.
SpecSupportedWrongFeature(id, b) ==
    \/ id = "mainnet"
    \/ id = "minimal" /\ "spec-v12" \in b.features
    \/ id = "v0.12.3" /\ "spec-v12" \in b.features

\* The arms of `match eth_spec_id` this build compiles in.
SpecSupported(id, b) ==
    \/ id = "mainnet"
    \/ id = "minimal" /\ "spec-minimal" \in b.features
    \/ id = "v0.12.3" /\ "spec-v12" \in b.features

UnsupportedLines(id) ==
    << <<"Eth spec {} is not supported by this build of Lighthouse", id>>,
       <<"You must compile with a feature flag to enable this spec variant">> >>

\* Mutants: exit(1) in both arms; exit(0) in both arms.
MainStatusAlwaysOne(result) == 1
MainStatusIgnoresError(result) == 0

\* main(): `match result`: the exit status and what eprintln! writes.
MainStatus(result) == IF result.ok THEN 0 ELSE 1
MainLines(result) == IF result.ok THEN <<>> ELSE <<result.e>>

\* run(): the network name, or the error of the last arm.
NetworkName(m) ==
    LET yaml == IF TESTNET_YAML_CONFIG \in m.overrides
                THEN "/testnet.yaml" ELSE NoneV
    IN  IF m.network # NoneV /\ m.testnet_dir = NoneV /\ yaml = NoneV
            THEN [ok |-> TRUE, e |-> <<>>, name |-> <<m.network>>]
        ELSE IF m.network = NoneV /\ m.testnet_dir # NoneV /\ yaml = NoneV
            THEN [ok |-> TRUE, e |-> <<>>,
                  name |-> <<"custom ({})", m.testnet_dir>>]
        ELSE IF m.network = NoneV /\ m.testnet_dir = NoneV /\ yaml # NoneV
            THEN [ok |-> TRUE, e |-> <<>>,
                  name |-> <<"custom loaded from {}", yaml>>]
        ELSE IF m.network = NoneV /\ m.testnet_dir = NoneV /\ yaml = NoneV
            THEN [ok |-> TRUE, e |-> <<>>,
                  name |-> <<DEFAULT_HARDCODED_NETWORK>>]
        ELSE [ok |-> FALSE, e |-> <<"Invalid combination of testnet flags">>,
              name |-> <<>>]

\* Mutant: the Failure arm forgotten, every reason gives Ok(()).
ReasonResultAlwaysOk(r) == OkResult

\* run(): `match shutdown_reason`.
ReasonResult(r) ==
    IF r.kind = "Success" THEN OkResult ELSE Err(<<r.msg>>)

(***************************************************************************)
(* The ShutdownChannel.                                                    *)
(***************************************************************************)
\* The channel after a reason is offered: the first reason stays.
Accept(c, r) == IF c = NoReason THEN r ELSE c

\* Mutant: the Success is sent whatever the immediate-shutdown flag.
BeaconNodeSendsAlways(result, shutdown_flag) ==
    IF ~result.ok THEN <<Failure("Failed to start beacon node")>>
    ELSE <<Success("Beacon node immediate shutdown triggered.")>>

\* Mutant: `if shutdown_flag` instead of `else if shutdown_flag`.
BeaconNodeSendsBoth(result, shutdown_flag) ==
    (IF ~result.ok THEN <<Failure("Failed to start beacon node")>> ELSE <<>>)
        \o (IF shutdown_flag
                THEN <<Success("Beacon node immediate shutdown triggered.")>>
                ELSE <<>>)

\* What the spawned beacon node task sends, given the result of
\* ProductionBeaconNode::new and the immediate-shutdown flag.
BeaconNodeSends(result, shutdown_flag) ==
    IF ~result.ok THEN <<Failure("Failed to start beacon node")>>
    ELSE IF shutdown_flag
        THEN <<Success("Beacon node immediate shutdown triggered.")>>
    ELSE <<>>

\* What the spawned validator client task sends when
\* ProductionValidatorClient::new(..).await? returns `result`.
ValidatorNewSends(result) == <<>>

\* Mutant: the Failure carries the error start_service() returned.
ValidatorStartSendsOwnMessage(result) ==
    IF ~result.ok THEN <<Failure(result.e[1])>> ELSE <<>>

\* What the spawned validator client task sends when start_service()
\* returns `result`.
ValidatorStartSends(result) ==
    IF ~result.ok THEN <<Failure("Failed to start validator client")>>
    ELSE <<>>

\* Mutant: the client's task is spawned whatever the flag.
ValidatorSpawnsAlways(shutdown_flag) == TRUE

\* The validator_client arm spawns the client's task (`if !shutdown_flag`).
ValidatorSpawns(shutdown_flag) == ~shutdown_flag

\* What the validator_client arm sends itself, without spawning.
ValidatorImmediateSends(shutdown_flag) ==
    IF shutdown_flag
        THEN <<Success("Validator client immediate shutdown triggered.")>>
    ELSE <<>>

\* Mutant: the failure of remote_signer::run is logged and nothing is sent.
RemoteSignerSendsNothing(result) == <<>>

\* What the remote_signer arm sends.
RemoteSignerSends(result) ==
    IF ~result.ok THEN <<Failure("Failed to start remote signer")>>
    ELSE <<>>

\* The channel after the reasons of rs are offered in order.
RECURSIVE AcceptAll(_, _)
AcceptAll(c, rs) ==
    IF rs = <<>> THEN c ELSE AcceptAll(Accept(c, Head(rs)), Tail(rs))

\* try_send of each reason of rs; the send error is ignored (`let _ =`).
TrySend(rs) ==
    /\ sent' = sent \o rs
    /\ arrivals' = arrivals \o rs
    /\ chan' = AcceptAll(chan, rs)

(***************************************************************************)
(* The initial state: a command line and a build, nothing done yet.        *)
(***************************************************************************)
Init ==
    /\ matches \in [subcommand : Subcommands \cup {NoneV},
                    network : NetworkValues \cup {NoneV},
                    testnet_dir : TestnetDirValues \cup {NoneV},
                    overrides : SUBSET OverrideFlags,
                    immediate_shutdown : BOOLEAN,
                    dump_config : BOOLEAN]
    /\ build \in [features : SUBSET Features, pointer_width : PointerWidths]
    /\ pc = "parse"
    /\ eth_spec_id = NoneV
    /\ environment = NoneV
    /\ network_name = <<>>
    /\ started = <<>>
    /\ executed = <<>>
    /\ task = NoneV
    /\ entry_error = <<>>
    /\ dumped = <<>>
    /\ sent = <<>>
    /\ arrivals = <<>>
    /\ chan = NoReason
    /\ interrupts = 0
    /\ shutdown_reason = NoReason
    /\ exit_signal = FALSE
    /\ idle = FALSE
    /\ log = <<>>
    /\ stderr = <<>>
    /\ exit_status = NoStatus

\* std::process::exit(status) after the lines were written to stderr.
Exit(status, lines) ==
    /\ pc' = "exited"
    /\ exit_status' = status
    /\ stderr' = stderr \o lines

\* run() returns `result` and main() exits on it.
ReturnToMain(result) == Exit(MainStatus(result), MainLines(result))

(***************************************************************************)
(* main()                                                                  *)
(***************************************************************************)
\* App::get_matches(): a rejected command line ends the process.
ParseArgs ==
    /\ pc = "parse"
    /\ IF ClapRejects(matches)
        THEN Exit(1, << <<"error: invalid combination of arguments">> >>)
        ELSE /\ pc' = "resolve"
             /\ UNCHANGED <<exit_status, stderr>>
    /\ UNCHANGED <<matches, build, eth_spec_id, environment, network_name,
                   started, executed, task, entry_error, dumped, sent,
                   arrivals, chan, interrupts, shutdown_reason, exit_signal,
                   idle, log>>

\* get_eth2_network_config(&matches) and testnet_config.eth_spec_id()?.
ResolveNetwork ==
    /\ pc = "resolve"
    /\ \/ \E e \in NetworkConfigErrors \cup EthSpecIdErrors :
            /\ ReturnToMain(Err(<<e>>))
            /\ UNCHANGED eth_spec_id
       \/ \E id \in EthSpecIds :
            /\ eth_spec_id' = id
            /\ pc' = "dispatch"
            /\ UNCHANGED <<exit_status, stderr>>
    /\ UNCHANGED <<matches, build, environment, network_name, started,
                   executed, task, entry_error, dumped, sent, arrivals, chan,
                   interrupts, shutdown_reason, exit_signal, idle, log>>

\* Mutant: `return Ok(())` is missing after boot_node::run, main() goes on
\* to `match eth_spec_id`.
BootNodeFallsThrough ==
    /\ pc = "dispatch"
    /\ matches.subcommand = "boot_node"
    /\ started' = Append(started, "boot_node")
    /\ executed' = Append(executed, "boot_node::run")
    /\ IF SpecSupported(eth_spec_id, build)
        THEN /\ pc' = "run"
             /\ UNCHANGED <<exit_status, stderr>>
        ELSE Exit(1, UnsupportedLines(eth_spec_id))
    /\ UNCHANGED <<matches, build, eth_spec_id, environment, network_name,
                   task, entry_error, dumped, sent, arrivals, chan,
                   interrupts, shutdown_reason, exit_signal, idle, log>>

\* The boot_node subcommand: boot_node::run, then Ok(()) and exit(0).
BootNode ==
    /\ pc = "dispatch"
    /\ matches.subcommand = "boot_node"
    /\ started' = Append(started, "boot_node")
    /\ executed' = Append(executed, "boot_node::run")
    /\ ReturnToMain(OkResult)
    /\ UNCHANGED <<matches, build, eth_spec_id, environment, network_name,
                   task, entry_error, dumped, sent, arrivals, chan,
                   interrupts, shutdown_reason, exit_signal, idle, log>>

\* `match eth_spec_id`: call run(), or exit(1) in the `other` arm.
MatchEthSpec ==
    /\ pc = "dispatch"
    /\ matches.subcommand # "boot_node"
    /\ IF SpecSupported(eth_spec_id, build)
        THEN /\ pc' = "run"
             /\ UNCHANGED <<exit_status, stderr>>
        ELSE Exit(1, UnsupportedLines(eth_spec_id))
    /\ UNCHANGED <<matches, build, eth_spec_id, environment, network_name,
                   started, executed, task, entry_error, dumped, sent,
                   arrivals, chan, interrupts, shutdown_reason, exit_signal,
                   idle, log>>

(***************************************************************************)
(* run(): the environment and the network name                             *)
(***************************************************************************)
\* The 64-bit check, the logger, the runtime and EnvironmentBuilder::build.
BuildEnvironment ==
    /\ pc = "run"
    /\ IF build.pointer_width # 64
        THEN /\ ReturnToMain(
                    Err(<<"{}-bit architecture is not supported (64-bit only).",
                          "32">>))
             /\ UNCHANGED environment
        ELSE \E r \in Results(EnvironmentErrors) :
                IF r.ok
                    THEN /\ environment' = "run"
                         /\ pc' = "network_name"
                         /\ UNCHANGED <<exit_status, stderr>>
                    ELSE /\ ReturnToMain(r)
                         /\ UNCHANGED environment
    /\ UNCHANGED <<matches, build, eth_spec_id, network_name, started,
                   executed, task, entry_error, dumped, sent, arrivals, chan,
                   interrupts, shutdown_reason, exit_signal, idle, log>>

\* `let network_name = match (optional_testnet, ...)`.
ResolveNetworkName ==
    /\ pc = "network_name"
    /\ LET n == NetworkName(matches)
       IN  IF n.ok
            THEN /\ network_name' = n.name
                 /\ pc' = "mode"
                 /\ UNCHANGED <<exit_status, stderr>>
            ELSE /\ ReturnToMain(Err(n.e))
                 /\ UNCHANGED network_name
    /\ UNCHANGED <<matches, build, eth_spec_id, environment, started,
                   executed, task, entry_error, dumped, sent, arrivals, chan,
                   interrupts, shutdown_reason, exit_signal, idle, log>>

(***************************************************************************)
(* run(): the subcommands                                                  *)
(***************************************************************************)
\* The two info! records written before `match matches.subcommand()`.
StartedLog ==
    << <<"info", "Lighthouse started">>,
       <<"info", "Configured for network">> \o network_name >>

\* account_manager::run(sub_matches, environment)? and `return Ok(())`.
AccountManager ==
    /\ pc = "mode"
    /\ matches.subcommand = "account_manager"
    /\ environment' = "account_manager"
    /\ started' = Append(started, "account_manager")
    /\ executed' = Append(executed, "account_manager::run")
    /\ \E r \in Results(AccountManagerErrors) :
        /\ entry_error' = r.e
        /\ Exit(MainStatus(r),
                << <<"Running account manager for {} network">>
                        \o network_name >>
                    \o MainLines(r))
    /\ UNCHANGED <<matches, build, eth_spec_id, network_name, task, dumped, sent, arrivals, chan, interrupts,
                   shutdown_reason, exit_signal, idle, log>>

\* Mutant: the node's task is spawned before the dump-config block, so a
\* failure of the dump returns with the task already running.
BeaconNodeArmDumpAfterSpawn ==
    /\ pc = "mode"
    /\ matches.subcommand = "beacon_node"
    /\ \E config \in Results(ConfigErrors), dump \in Results(DumpErrors) :
        IF ~config.ok
            THEN /\ ReturnToMain(config)
                 /\ UNCHANGED <<dumped, task, started>>
        ELSE IF matches.dump_config /\ ~dump.ok
            THEN /\ ReturnToMain(dump)
                 /\ dumped' = Append(dumped, "launch")
                 /\ task' = "bn_new"
                 /\ started' = Append(started, "beacon_node")
        ELSE /\ dumped' = dumped
                    \o <<"launch">>
                    \o (IF matches.dump_config THEN <<"dump">> ELSE <<>>)
             /\ task' = "bn_new"
             /\ started' = Append(started, "beacon_node")
             /\ pc' = "block"
             /\ UNCHANGED <<exit_status, stderr>>
    /\ log' = log \o StartedLog
    /\ UNCHANGED <<matches, build, eth_spec_id, environment, network_name,
                   executed, entry_error, sent, arrivals, chan, interrupts,
                   shutdown_reason, exit_signal, idle>>

\* The "beacon_node" arm: get_config, dump-config, spawn of the node's task.
BeaconNodeArm ==
    /\ pc = "mode"
    /\ matches.subcommand = "beacon_node"
    /\ \E config \in Results(ConfigErrors), dump \in Results(DumpErrors) :
        IF ~config.ok
            THEN /\ ReturnToMain(config)
                 /\ UNCHANGED <<dumped, task, started>>
        ELSE IF matches.dump_config /\ ~dump.ok
            THEN /\ ReturnToMain(dump)
                 /\ UNCHANGED <<dumped, task, started>>
        ELSE /\ dumped' = dumped
                    \o (IF matches.dump_config THEN <<"dump">> ELSE <<>>)
                    \o <<"launch">>
             /\ task' = "bn_new"
             /\ started' = Append(started, "beacon_node")
             /\ pc' = "block"
             /\ UNCHANGED <<exit_status, stderr>>
    /\ log' = log \o StartedLog
    /\ UNCHANGED <<matches, build, eth_spec_id, environment, network_name,
                   executed, entry_error, sent, arrivals, chan, interrupts,
                   shutdown_reason, exit_signal, idle>>

\* Mutant: the dump-config block comes after the spawn / the try_send.
ValidatorClientArmDumpAfterLaunch ==
    /\ pc = "mode"
    /\ matches.subcommand = "validator_client"
    /\ \E config \in Results(ConfigErrors), dump \in Results(DumpErrors) :
        IF ~config.ok
            THEN /\ ReturnToMain(
                        Err(<<"Unable to initialize validator config: {}">>
                            \o config.e))
                 /\ UNCHANGED <<dumped, task, started, sent, arrivals, chan>>
        ELSE /\ task' = IF ValidatorSpawns(matches.immediate_shutdown)
                            THEN "vc_new" ELSE task
             /\ TrySend(ValidatorImmediateSends(matches.immediate_shutdown))
             /\ started' = Append(started, "validator_client")
             /\ IF matches.dump_config /\ ~dump.ok
                    THEN /\ ReturnToMain(dump)
                         /\ dumped' = Append(dumped, "launch")
                    ELSE /\ dumped' = dumped
                                \o <<"launch">>
                                \o (IF matches.dump_config
                                        THEN <<"dump">> ELSE <<>>)
                         /\ pc' = "block"
                         /\ UNCHANGED <<exit_status, stderr>>
    /\ log' = log \o StartedLog
    /\ UNCHANGED <<matches, build, eth_spec_id, environment, network_name,
                   executed, entry_error, interrupts, shutdown_reason,
                   exit_signal, idle>>

\* The "validator_client" arm: Config::from_cli, dump-config, then the spawn
\* of the client's task or, with immediate-shutdown, the try_send.
ValidatorClientArm ==
    /\ pc = "mode"
    /\ matches.subcommand = "validator_client"
    /\ \E config \in Results(ConfigErrors), dump \in Results(DumpErrors) :
        IF ~config.ok
            THEN /\ ReturnToMain(
                        Err(<<"Unable to initialize validator config: {}">>
                            \o config.e))
                 /\ UNCHANGED <<dumped, task, started, sent, arrivals, chan>>
        ELSE IF matches.dump_config /\ ~dump.ok
            THEN /\ ReturnToMain(dump)
                 /\ UNCHANGED <<dumped, task, started, sent, arrivals, chan>>
        ELSE /\ dumped' = dumped
                    \o (IF matches.dump_config THEN <<"dump">> ELSE <<>>)
                    \o <<"launch">>
             /\ task' = IF ValidatorSpawns(matches.immediate_shutdown)
                            THEN "vc_new" ELSE task
             /\ TrySend(ValidatorImmediateSends(matches.immediate_shutdown))
             /\ started' = Append(started, "validator_client")
             /\ pc' = "block"
             /\ UNCHANGED <<exit_status, stderr>>
    /\ log' = log \o StartedLog
    /\ UNCHANGED <<matches, build, eth_spec_id, environment, network_name,
                   executed, entry_error, interrupts, shutdown_reason,
                   exit_signal, idle>>

\* Mutant: the arm goes back to the selection of the mode instead of on to
\* the wait, so the mode is launched again.
RemoteSignerArmRepeats ==
    /\ pc = "mode"
    /\ matches.subcommand = "remote_signer"
    /\ started' = Append(started, "remote_signer")
    /\ executed' = Append(executed, "remote_signer::run")
    /\ \E r \in Results(EntryErrors) :
        /\ TrySend(RemoteSignerSends(r))
        /\ entry_error' = r.e
        /\ task' = IF r.ok THEN "serving" ELSE task
        /\ log' = log \o StartedLog
    /\ UNCHANGED <<matches, build, pc, eth_spec_id, environment,
                   network_name, dumped, interrupts, shutdown_reason,
                   exit_signal, idle, stderr, exit_status>>

\* The "remote_signer" arm: remote_signer::run on the control thread.
RemoteSignerArm ==
    /\ pc = "mode"
    /\ matches.subcommand = "remote_signer"
    /\ started' = Append(started, "remote_signer")
    /\ executed' = Append(executed, "remote_signer::run")
    /\ \E r \in Results(EntryErrors) :
        /\ TrySend(RemoteSignerSends(r))
        /\ entry_error' = r.e
        /\ task' = IF r.ok THEN "serving" ELSE task
        /\ log' = log \o StartedLog
                \o (IF r.ok THEN <<>>
                    ELSE << <<"crit", "Failed to start remote signer">>
                            \o r.e >>)
    /\ pc' = "block"
    /\ UNCHANGED <<matches, build, eth_spec_id, environment, network_name,
                   dumped, interrupts, shutdown_reason, exit_signal, idle,
                   stderr, exit_status>>

\* Mutant: the `_` arm logs and falls through to the wait instead of returning.
NoSubcommandFallsThrough ==
    /\ pc = "mode"
    /\ matches.subcommand \notin
            {"account_manager", "beacon_node", "validator_client",
             "remote_signer"}
    /\ log' = log
            \o << <<"crit", "No subcommand supplied. See --help .">> >>
    /\ pc' = "block"
    /\ UNCHANGED <<matches, build, eth_spec_id, environment, network_name,
                   started, executed, task, entry_error, dumped, sent,
                   arrivals, chan, interrupts, shutdown_reason, exit_signal,
                   idle, stderr, exit_status>>

\* The `_` arm: no subcommand.
NoSubcommand ==
    /\ pc = "mode"
    /\ matches.subcommand \notin
            {"account_manager", "beacon_node", "validator_client",
             "remote_signer"}
    /\ log' = log \o StartedLog
            \o << <<"crit", "No subcommand supplied. See --help .">> >>
    /\ ReturnToMain(Err(<<"No subcommand supplied.">>))
    /\ UNCHANGED <<matches, build, eth_spec_id, environment, network_name,
                   started, executed, task, entry_error, dumped, sent,
                   arrivals, chan, interrupts, shutdown_reason, exit_signal,
                   idle>>

(***************************************************************************)
(* The task spawned on environment.runtime()                               *)
(***************************************************************************)
\* The beacon node's future: ProductionBeaconNode::new(..).await.
BeaconNodeNew ==
    /\ task = "bn_new"
    /\ pc # "exited"
    /\ executed' = Append(executed, "ProductionBeaconNode::new")
    /\ \E r \in Results(EntryErrors) :
        /\ TrySend(BeaconNodeSends(r, matches.immediate_shutdown))
        /\ entry_error' = r.e
        /\ task' = IF r.ok THEN "serving" ELSE "done"
        /\ log' = log
                \o (IF r.ok THEN <<>>
                    ELSE << <<"crit", "Failed to start beacon node">>
                            \o r.e >>)
    /\ UNCHANGED <<matches, build, pc, eth_spec_id, environment, network_name,
                   started, dumped, interrupts, shutdown_reason, exit_signal,
                   idle, stderr, exit_status>>

\* The validator client's future: ProductionValidatorClient::new(..).await?
ValidatorNew ==
    /\ task = "vc_new"
    /\ pc # "exited"
    /\ executed' = Append(executed, "ProductionValidatorClient::new")
    /\ \E r \in Results(EntryErrors) :
        /\ TrySend(ValidatorNewSends(r))
        /\ entry_error' = r.e
        /\ task' = IF r.ok THEN "vc_start" ELSE "done"
    /\ UNCHANGED <<matches, build, pc, eth_spec_id, environment, network_name,
                   started, dumped, interrupts, shutdown_reason, exit_signal,
                   idle, log, stderr, exit_status>>

\* The validator client's future: .start_service() and its `if let Err(e)`.
ValidatorStartService ==
    /\ task = "vc_start"
    /\ pc # "exited"
    /\ executed' = Append(executed, "start_service")
    /\ \E r \in Results(EntryErrors) :
        /\ TrySend(ValidatorStartSends(r))
        /\ entry_error' = r.e
        /\ task' = IF r.ok THEN "serving" ELSE "done"
        /\ log' = log
                \o (IF r.ok THEN <<>>
                    ELSE << <<"crit", "Failed to start validator client">>
                            \o r.e >>)
    /\ UNCHANGED <<matches, build, pc, eth_spec_id, environment, network_name,
                   started, dumped, interrupts, shutdown_reason, exit_signal,
                   idle, stderr, exit_status>>

\* The launched service observes the exit signal and finishes.
ServiceExit ==
    /\ task = "serving"
    /\ pc # "exited"
    /\ exit_signal
    /\ task' = "done"
    /\ UNCHANGED <<matches, build, pc, eth_spec_id, environment, network_name,
                   started, executed, entry_error, dumped, sent, arrivals,
                   chan, interrupts, shutdown_reason, exit_signal, idle, log,
                   stderr, exit_status>>

(***************************************************************************)
(* run(): the wait, the exit signal, the drain and the result              *)
(***************************************************************************)
\* The control thread is inside block_until_shutdown_requested or past it:
\* the ctrl-c handler is installed. An interrupt before that point ends the
\* process by the default signal action and is not a run of the supervisor.
HandlerInstalled == pc \in {"block", "fire", "idle", "result"}

\* ctrl-c: the interrupt is offered to the channel as a Success reason.
Interrupt ==
    /\ HandlerInstalled
    /\ interrupts < MaxInterrupts
    /\ interrupts' = interrupts + 1
    /\ arrivals' = Append(arrivals, InterruptReason)
    /\ chan' = Accept(chan, InterruptReason)
    /\ UNCHANGED <<matches, build, pc, eth_spec_id, environment, network_name,
                   started, executed, task, entry_error, dumped, sent,
                   shutdown_reason, exit_signal, idle, log, stderr,
                   exit_status>>

\* environment.block_until_shutdown_requested()? returns the reason. The wait
\* has no failure of its own here: it returns once the channel holds a reason,
\* so the Err of `?` is never taken.
BlockUntilShutdownRequested ==
    /\ pc = "block"
    /\ chan # NoReason
    /\ shutdown_reason' = chan
    /\ log' = Append(log, <<"info", "Shutting down..", chan.kind, chan.msg>>)
    /\ pc' = "fire"
    /\ UNCHANGED <<matches, build, eth_spec_id, environment, network_name,
                   started, executed, task, entry_error, dumped, sent,
                   arrivals, chan, interrupts, exit_signal, idle, stderr,
                   exit_status>>

\* Mutant: the call of fire_signal() is missing.
FireSignalForgotten ==
    /\ pc = "fire"
    /\ pc' = "idle"
    /\ UNCHANGED <<matches, build, eth_spec_id, environment, network_name,
                   started, executed, task, entry_error, dumped, sent,
                   arrivals, chan, interrupts, shutdown_reason, exit_signal,
                   idle, log, stderr, exit_status>>

\* Mutant: the call of shutdown_on_idle() is missing after fire_signal().
FireSignalSkipsDrain ==
    /\ pc = "fire"
    /\ exit_signal' = TRUE
    /\ pc' = "result"
    /\ UNCHANGED <<matches, build, eth_spec_id, environment, network_name,
                   started, executed, task, entry_error, dumped, sent,
                   arrivals, chan, interrupts, shutdown_reason, idle, log,
                   stderr, exit_status>>

\* environment.fire_signal().
FireSignal ==
    /\ pc = "fire"
    /\ exit_signal' = TRUE
    /\ pc' = "idle"
    /\ UNCHANGED <<matches, build, eth_spec_id, environment, network_name,
                   started, executed, task, entry_error, dumped, sent,
                   arrivals, chan, interrupts, shutdown_reason, idle, log,
                   stderr, exit_status>>

\* environment.shutdown_on_idle(): returns once the launched work finished.
ShutdownOnIdle ==
    /\ pc = "idle"
    /\ task \in {NoneV, "done"}
    /\ idle' = TRUE
    /\ pc' = "result"
    /\ UNCHANGED <<matches, build, eth_spec_id, environment, network_name,
                   started, executed, task, entry_error, dumped, sent,
                   arrivals, chan, interrupts, shutdown_reason, exit_signal,
                   log, stderr, exit_status>>

\* Mutant: the result is taken from the latest reason offered to the channel
\* instead of the one the wait returned.
ReturnReasonLatest ==
    /\ pc = "result"
    /\ ReturnToMain(ReasonResult(arrivals[Len(arrivals)]))
    /\ UNCHANGED <<matches, build, eth_spec_id, environment, network_name,
                   started, executed, task, entry_error, dumped, sent,
                   arrivals, chan, interrupts, shutdown_reason, exit_signal,
                   idle, log>>

\* `match shutdown_reason`, then main()'s `match result`.
ReturnReason ==
    /\ pc = "result"
    /\ ReturnToMain(ReasonResult(shutdown_reason))
    /\ UNCHANGED <<matches, build, eth_spec_id, environment, network_name,
                   started, executed, task, entry_error, dumped, sent,
                   arrivals, chan, interrupts, shutdown_reason, exit_signal,
                   idle, log>>

Next ==
    \/ ParseArgs
    \/ ResolveNetwork
    \/ BootNode
    \/ MatchEthSpec
    \/ BuildEnvironment
    \/ ResolveNetworkName
    \/ AccountManager
    \/ BeaconNodeArm
    \/ ValidatorClientArm
    \/ RemoteSignerArm
    \/ NoSubcommand
    \/ BeaconNodeNew
    \/ ValidatorNew
    \/ ValidatorStartService
    \/ ServiceExit
    \/ Interrupt
    \/ BlockUntilShutdownRequested
    \/ FireSignal
    \/ ShutdownOnIdle
    \/ ReturnReason

Spec == Init /\ [][Next]_vars

\* The control thread and the runtime's tasks keep running; ctrl-c is up to
\* the operator and has no fairness.
FairSpec ==
    /\ Spec
    /\ WF_vars(BlockUntilShutdownRequested)
    /\ WF_vars(FireSignal)
    /\ WF_vars(ShutdownOnIdle)
    /\ WF_vars(ReturnReason)
    /\ WF_vars(BeaconNodeNew)
    /\ WF_vars(ValidatorNew)
    /\ WF_vars(ValidatorStartService)
    /\ WF_vars(ServiceExit)

(***************************************************************************)
(* Properties                                                              *)
(***************************************************************************)
Terminated == pc = "exited"

\* The process ended through the wait, the exit signal and the drain.
ShutdownPath == Terminated /\ idle

\* C1: the reason block_until_shutdown_requested returns is the first reason
\* that arrived at the ShutdownChannel, whatever arrived after it, and the
\* exit status of a run that ends through the shutdown path is the status of
\* that first arrival: 0 for a Success, 1 for a Failure, so the arrival
\* order fixes the exit status.
C1_FirstReasonDecidesExit ==
    /\ shutdown_reason # NoReason =>
            /\ arrivals # <<>>
            /\ shutdown_reason = arrivals[1]
    /\ ShutdownPath =>
            /\ arrivals # <<>>
            /\ exit_status = IF arrivals[1].kind = "Success" THEN 0 ELSE 1

\* A run that ended after a Failure arrived first and an interrupt second.
C1_Witness ==
    /\ ShutdownPath
    /\ Len(arrivals) >= 2
    /\ arrivals[1].kind = "Failure"
    /\ arrivals[2] = InterruptReason
    /\ exit_status = 1

\* C2: on the shutdown path the exit status is 0 exactly when the accepted
\* reason is a Success (and nothing is written to standard error), it is 1
\* with the reason's message on standard error exactly when the accepted
\* reason is a Failure, and it is never anything else.
C2_StatusFromReason ==
    ShutdownPath =>
        /\ exit_status \in {0, 1}
        /\ exit_status = 0 <=> shutdown_reason.kind = "Success"
        /\ (exit_status = 1 /\ stderr = << <<shutdown_reason.msg>> >>)
                <=> shutdown_reason.kind = "Failure"
        /\ shutdown_reason.kind = "Success" => stderr = <<>>

\* A run that ended on an accepted Failure.
C2_Witness ==
    /\ ShutdownPath
    /\ shutdown_reason = Failure("Failed to start beacon node")
    /\ exit_status = 1

C4_EntryErrorSendsFailure ==
    (/\ matches.subcommand
            \in {"beacon_node", "validator_client", "remote_signer"}
     /\ entry_error # <<>>) =>
        \E i \in 1..Len(sent) : sent[i].kind = "Failure"

\* C5 as stated: when the validator client's entry point failed with message
\* m and the process ended without any interrupt, a Failure was sent, the
\* exit signal was fired, the exit status is 1 and m is on standard error.
C5_Original ==
    (/\ matches.subcommand = "validator_client"
     /\ entry_error # <<>>
     /\ interrupts = 0
     /\ Terminated) =>
        /\ \E i \in 1..Len(sent) : sent[i].kind = "Failure"
        /\ exit_signal
        /\ exit_status = 1
        /\ entry_error \in Range(stderr)

\* C5, amended: when the validator client's entry point failed with message
\* m and the launcher's Failure is the accepted reason, the exit signal is
\* fired, the exit status is 1, and standard error holds the launcher's fixed
\* text "Failed to start validator client" and not m; m is written to the
\* log only, in the crit record.
C5_FixedFailureMessage ==
    (/\ matches.subcommand = "validator_client"
     /\ entry_error # <<>>
     /\ shutdown_reason.kind = "Failure"
     /\ Terminated) =>
        /\ Failure("Failed to start validator client") \in Range(sent)
        /\ exit_signal
        /\ exit_status = 1
        /\ stderr = << <<"Failed to start validator client">> >>
        /\ entry_error \notin Range(stderr)
        /\ (<<"crit", "Failed to start validator client">> \o entry_error)
                \in Range(log)

\* A validator client run whose start_service failed with "unable to connect
\* to signer" and that ended with status 1.
C5_Witness ==
    /\ matches.subcommand = "validator_client"
    /\ entry_error = <<"unable to connect to signer">>
    /\ shutdown_reason = Failure("Failed to start validator client")
    /\ Terminated
    /\ exit_status = 1

\* C6: once an interrupt has arrived while the control thread waits for a
\* shutdown reason, the process eventually ends, whether or not the launched
\* service ever reports anything; and a run that ends with the interrupt as
\* the first reason ends with exit status 0.
C6_InterruptTerminates ==
    /\ (pc = "block" /\ interrupts > 0) ~> Terminated
    /\ [](/\ ShutdownPath
          /\ arrivals # <<>>
          /\ arrivals[1] = InterruptReason
          => exit_status = 0)

\* A run in which the service never sent anything and that ended with status
\* 0 on the interrupt.
C6_Witness ==
    /\ ShutdownPath
    /\ task = "done"
    /\ sent = <<>>
    /\ shutdown_reason = InterruptReason
    /\ exit_status = 0

\* The resolved eth spec needs a cargo feature this build does not have.
CapabilityMissing ==
    \/ eth_spec_id = "minimal" /\ "spec-minimal" \notin build.features
    \/ eth_spec_id = "v0.12.3" /\ "spec-v12" \notin build.features

\* C7: in account_manager mode the utility runs on the control thread with
\* the environment moved into it, no task is ever spawned, nothing is sent to
\* or received from the ShutdownChannel (no wait, no exit signal, no drain),
\* and as soon as the utility has returned the process has exited, with status
\* 0 if it returned Ok and 1 if it returned an error.
C7_AccountManagerSynchronous ==
    matches.subcommand = "account_manager" =>
        /\ task = NoneV
        /\ sent = <<>>
        /\ arrivals = <<>>
        /\ chan = NoReason
        /\ shutdown_reason = NoReason
        /\ ~HandlerInstalled
        /\ ~exit_signal
        /\ ~idle
        /\ "account_manager::run" \in Range(executed) =>
            /\ environment = "account_manager"
            /\ Terminated
            /\ exit_status = IF entry_error = <<>> THEN 0 ELSE 1

\* An account manager run whose utility returned an error.
C7_Witness ==
    /\ matches.subcommand = "account_manager"
    /\ executed = <<"account_manager::run">>
    /\ entry_error # <<>>
    /\ exit_status = 1

\* C8 as stated: in every mode, a resolved eth spec whose feature is missing
\* ends the process with status 1 and the message naming the spec, with no
\* mode started and no environment built.
C8_Original ==
    (CapabilityMissing /\ Terminated) =>
        /\ exit_status = 1
        /\ stderr = UnsupportedLines(eth_spec_id)
        /\ started = <<>>
        /\ environment = NoneV

\* C8, amended: in every mode but boot_node, a resolved eth spec whose
\* feature is missing ends the process, at the dispatch of main(), with status
\* 1 and the message naming the spec, with no mode started, no entry point
\* executed and no environment built; boot_node is dispatched before the
\* check, runs with the unsupported spec and exits with status 0.
C8_UnsupportedSpec ==
    /\ (/\ CapabilityMissing
        /\ matches.subcommand # "boot_node"
        /\ pc # "dispatch") =>
            /\ Terminated
            /\ exit_status = 1
            /\ stderr = UnsupportedLines(eth_spec_id)
            /\ started = <<>>
            /\ executed = <<>>
            /\ task = NoneV
            /\ environment = NoneV
    /\ (/\ CapabilityMissing
        /\ matches.subcommand = "boot_node"
        /\ Terminated) =>
            /\ exit_status = 0
            /\ started = <<"boot_node">>
            /\ environment = NoneV

\* A beacon_node command line that resolved to the minimal spec on a build
\* without spec-minimal and ended with status 1.
C8_Witness ==
    /\ CapabilityMissing
    /\ eth_spec_id = "minimal"
    /\ matches.subcommand = "beacon_node"
    /\ Terminated
    /\ exit_status = 1

\* C9: a command line that supplies more than one of --network,
\* --testnet-dir and the custom override files never gets past the parsing of
\* the arguments: the environment is never built, no mode is started, no task
\* is spawned, and the process ends with status 1.
C9_OneNetworkSource ==
    SourcesSupplied(matches) > 1 =>
        /\ pc \in {"parse", "exited"}
        /\ environment = NoneV
        /\ started = <<>>
        /\ task = NoneV
        /\ Terminated => exit_status = 1 /\ stderr # <<>>

\* A command line with both --network and --testnet-dir, rejected.
C9_Witness ==
    /\ matches.network # NoneV
    /\ matches.testnet_dir # NoneV
    /\ matches.overrides = {}
    /\ Terminated
    /\ exit_status = 1

\* C10: without a subcommand no mode is started, no task is spawned, the
\* control thread never waits on the ShutdownChannel, the process ends with
\* status 1 and, when the selection of the mode was reached, with the message
\* "No subcommand supplied."; with a subcommand at most one mode is started
\* and it is the one of the subcommand, and exactly that one is started once
\* the control thread is past the selection.
C10_ModeSelection ==
    /\ matches.subcommand = NoneV =>
            /\ started = <<>>
            /\ executed = <<>>
            /\ task = NoneV
            /\ ~HandlerInstalled
            /\ chan = NoReason
            /\ Terminated => exit_status = 1
            /\ (Terminated /\ network_name # <<>>) =>
                    stderr = << <<"No subcommand supplied.">> >>
    /\ matches.subcommand # NoneV =>
            /\ started \in {<<>>, <<matches.subcommand>>}
            /\ HandlerInstalled => started = <<matches.subcommand>>
            /\ executed # <<>> => started = <<matches.subcommand>>

\* A run without subcommand that reached the selection and ended on it.
C10_Witness ==
    /\ matches.subcommand = NoneV
    /\ environment = "run"
    /\ Terminated
    /\ exit_status = 1
    /\ stderr = << <<"No subcommand supplied.">> >>

\* C11: once a first reason has been accepted, nothing that is delivered
\* afterwards, by an interrupt or by a try_send of the service, changes the
\* accepted reason, the reason the wait returned or the exit status; a run
\* that ends after several reasons were offered ends with the status of the
\* first one.
C11_LaterReasonsDropped ==
    /\ [][/\ chan # NoReason => chan' = chan
          /\ shutdown_reason # NoReason => shutdown_reason' = shutdown_reason
          /\ exit_status # NoStatus => exit_status' = exit_status]_vars
    /\ [](/\ ShutdownPath
          /\ Len(arrivals) > 1
          => /\ chan = arrivals[1]
             /\ shutdown_reason = arrivals[1]
             /\ exit_status = IF arrivals[1].kind = "Success" THEN 0 ELSE 1)

\* A run that ended with status 0 on an interrupt although the service sent a
\* Failure after it.
C11_Witness ==
    /\ ShutdownPath
    /\ Len(arrivals) > 1
    /\ arrivals[1] = InterruptReason
    /\ sent = <<Failure("Failed to start beacon node")>>
    /\ exit_status = 0

\* The control thread is in one of the four states of the supervisor.
Initializing == pc \in {"parse", "resolve", "dispatch", "run", "network_name", "mode"}
Running == pc = "block"
ShuttingDown == pc \in {"fire", "idle", "result"}

C13_StartupErrorsSynchronous ==
    [][(/\ pc \in {"run", "network_name", "mode"}
        /\ pc' = "exited"
        /\ executed' = <<>>) =>
            /\ exit_status' = 1
            /\ Len(stderr') = Len(stderr) + 1
            /\ started' = <<>>
            /\ task' = NoneV
            /\ sent' = <<>>
            /\ arrivals' = <<>>
            /\ chan' = NoReason
            /\ shutdown_reason' = NoReason
            /\ ~exit_signal'
            /\ ~idle']_vars

\* A beacon_node run that ended on the failure of its dump-config.
C13_Witness ==
    /\ matches.subcommand = "beacon_node"
    /\ matches.dump_config
    /\ Terminated
    /\ stderr = << <<"Failed to create dumped config">> >>
    /\ task = NoneV
    /\ exit_status = 1

\* C14: in every run at most one mode is started, it is the mode of the
\* subcommand, and at most one launch of a service happens.
C14_AtMostOneMode ==
    /\ Len(started) <= 1
    /\ Len(executed) <= 2
    /\ Cardinality({i \in 1..Len(dumped) : dumped[i] = "launch"}) <= 1
    /\ started # <<>> => started[1] = matches.subcommand
    /\ task # NoneV =>
            /\ Len(started) = 1
            /\ started[1]
                \in {"beacon_node", "validator_client", "remote_signer"}

\* A run that has launched its one mode and runs its task.
C14_Witness ==
    /\ started = <<"validator_client">>
    /\ task = "serving"
    /\ executed = <<"ProductionValidatorClient::new", "start_service">>

C16_BootNodeSynchronous ==
    matches.subcommand = "boot_node" =>
        /\ environment = NoneV
        /\ ~HandlerInstalled
        /\ pc \notin {"run", "network_name", "mode"}
        /\ ~exit_signal
        /\ ~idle
        /\ chan = NoReason
        /\ arrivals = <<>>
        /\ task = NoneV
        /\ executed # <<>> =>
            /\ executed = <<"boot_node::run">>
            /\ started = <<"boot_node">>
            /\ Terminated
            /\ exit_status = 0
            /\ stderr = <<>>

\* A boot node run that ended.
C16_Witness ==
    /\ matches.subcommand = "boot_node"
    /\ executed = <<"boot_node::run">>
    /\ Terminated
    /\ exit_status = 0

\* C17: with dump-config requested for beacon_node or validator_client, the
\* configuration has been written before the launch: whenever the mode is
\* started, a task spawned or a reason sent, the dump has happened, and it
\* comes before the launch.
C17_DumpBeforeLaunch ==
    (/\ matches.dump_config
     /\ matches.subcommand \in {"beacon_node", "validator_client"}) =>
        /\ (started # <<>> \/ task # NoneV \/ sent # <<>>) =>
                dumped = <<"dump", "launch">>
        /\ dumped \in {<<>>, <<"dump", "launch">>}

\* A validator client launched with immediate-shutdown after its dump.
C17_Witness ==
    /\ matches.dump_config
    /\ matches.immediate_shutdown
    /\ matches.subcommand = "validator_client"
    /\ dumped = <<"dump", "launch">>
    /\ sent = <<Success("Validator client immediate shutdown triggered.")>>

C19_BeaconNodeImmediate ==
    (/\ matches.subcommand = "beacon_node"
     /\ matches.immediate_shutdown) =>
        /\ Len(sent) <= 1
        /\ (\E i \in 1..Len(sent) : sent[i].kind = "Success") =>
                /\ executed = <<"ProductionBeaconNode::new">>
                /\ entry_error = <<>>
                /\ task \in {"serving", "done"}
        /\ entry_error # <<>> =>
                sent = <<Failure("Failed to start beacon node")>>
        /\ (/\ ShutdownPath
            /\ arrivals[1] = Failure("Failed to start beacon node")) =>
                /\ exit_status = 1
                /\ stderr = << <<"Failed to start beacon node">> >>

\* A beacon node run with the flag set whose entry point failed and that
\* ended with status 1.
C19_Witness ==
    /\ matches.subcommand = "beacon_node"
    /\ matches.immediate_shutdown
    /\ entry_error # <<>>
    /\ ShutdownPath
    /\ arrivals[1] = Failure("Failed to start beacon node")
    /\ exit_status = 1

====
